---- MODULE Spec2Model ----
(***************************************************************************)
(* A model of the `scraped` package: the recursive downloader              *)
(* (RecursiveDownloader.parse driven by the crawl engine it is run on),    *)
(* download_site / markdown_of_site, html_to_markdown and                  *)
(* scrape_multiple_sites.                                                  *)
(*                                                                         *)
(* The crawl engine is the framework the spider class inherits from.  The  *)
(* model states the engine behaviour the spider's code relies on:          *)
(*   - start_urls are requested with dont_filter = True, which bypasses    *)
(*     both the duplicate filter and the allowed_domains check, and does   *)
(*     not record the URL in the duplicate filter;                         *)
(*   - every other request is dropped when the fingerprint of its URL      *)
(*     (the URL without its fragment) was already recorded;                *)
(*   - allowed_domains admits the listed domain and all its subdomains;    *)
(*   - a redirect response makes a new request for the target that keeps   *)
(*     the meta (depth) and dont_filter of the redirected request;         *)
(*   - a response with a non-2xx status, or a failed download, is not      *)
(*     passed to the callback;                                             *)
(*   - an exception raised by a callback is logged and the crawl goes on;  *)
(*   - pending requests are served in no particular order (several         *)
(*     downloads are in flight at once);                                   *)
(*   - the crawl ends when no request is pending.                          *)
(***************************************************************************)
EXTENDS Integers, Sequences, FiniteSets, TLC

\* ------------------------------------------------------------------ bounds
MaxDepth == 3

\* ------------------------------------------------------------------- URLs
\* A URL is its host (a sequence of labels), its path (a sequence of
\* segments) and its fragment ("" when it has none).
U(h, p, f) == [host |-> h, path |-> p, frag |-> f]

Ex == <<"example", "test">>
Www == <<"www", "example", "test">>
Other == <<"other", "test">>

Root == U(Ex, <<>>, "")
PA == U(Ex, <<"docs", "a">>, "")
PB == U(Ex, <<"b">>, "")
PBf == U(Ex, <<"b">>, "frag")
PC == U(Ex, <<"docs", "c">>, "")
PD == U(Ex, <<"d">>, "")
PE == U(Ex, <<"e">>, "")
PW == U(Www, <<"w">>, "")
WRoot == U(Www, <<>>, "")
PX == U(Other, <<"x">>, "")

Pages == {Root, PA, PB, PC, PD, PE, PW, WRoot, PX}
URLs == Pages \cup {PBf}

\* The request fingerprint: the URL without its fragment.
Fingerprint(u) == [u EXCEPT !.frag = ""]

\* urlparse(url).netloc
netloc(u) == u.host

IsSuffix(s, t) ==
    /\ Len(s) <= Len(t)
    /\ \A i \in 1..Len(s) : s[i] = t[Len(t) - Len(s) + i]

\* allowed_domains = [netloc(start_url)]: the domain and its subdomains.
UrlIsFromAllowed(u, domains) ==
    \E d \in domains : IsSuffix(d, u.host)

\* ---------------------------------------------------------------- the web
\* A site: the links the link extractor yields for each page (in document
\* order) and the redirect target of each page (itself when it does not
\* redirect).
NoRedirect == [p \in Pages |-> p]

SiteSpec ==
    [links |-> [p \in Pages |->
                  CASE p = Root -> <<PB, PX, PBf>>
                    [] p = PB -> <<Root, PC>>
                    [] p = PC -> <<PD>>
                    [] OTHER -> <<>>],
     redirect |-> NoRedirect]

SiteDiamond ==
    [links |-> [p \in Pages |->
                  CASE p = Root -> <<PA, PB>>
                    [] p = PA -> <<PC>>
                    [] p = PC -> <<PD>>
                    [] p = PB -> <<PD>>
                    [] p = PD -> <<PE>>
                    [] OTHER -> <<>>],
     redirect |-> NoRedirect]

SiteSub ==
    [links |-> [p \in Pages |->
                  CASE p = Root -> <<PBf, PW, PB>>
                    [] p = PW -> <<PX, PB>>
                    [] OTHER -> <<>>],
     redirect |-> NoRedirect]

SiteRedirect ==
    [links |-> [p \in Pages |->
                  CASE p = WRoot -> <<PB, PD>>
                    [] p = PX -> <<PE>>
                    [] OTHER -> <<>>],
     redirect |-> [p \in Pages |->
                  CASE p = Root -> WRoot
                    [] p = PB -> PX
                    [] OTHER -> p]]

SiteNames == {"spec", "diamond", "sub", "redirect"}

SiteOf(name) ==
    CASE name = "spec" -> SiteSpec
      [] name = "diamond" -> SiteDiamond
      [] name = "sub" -> SiteSub
      [] name = "redirect" -> SiteRedirect

\* filter_urls: None, or a predicate on the URL string.
FilterChoices == {"None", "no_docs"}

filter_accepts(f, u) ==
    CASE f = "None" -> TRUE
      [] f = "no_docs" -> ~(Len(u.path) > 0 /\ u.path[1] = "docs")

\* ---------------------------------------------------------- the filesystem
\* A path is a sequence of segments.
rootdir == <<"rootdir">>

\* url_to_localpath(url, rootdir): rootdir / host / path segments, with an
\* index name for a URL without a file component; the fragment is part of
\* the name.
LeafName(u) ==
    LET name == IF Len(u.path) = 0 THEN "index" ELSE u.path[Len(u.path)]
    IN  IF u.frag = "" THEN <<name>> ELSE <<name \o "#" \o u.frag>>

RECURSIVE JoinLabels(_)
JoinLabels(h) ==
    IF Len(h) = 1 THEN h[1] ELSE h[1] \o "." \o JoinLabels(Tail(h))

HostDir(u) == <<JoinLabels(u.host)>>

url_to_localpath(u, root) ==
    root \o HostDir(u)
         \o (IF Len(u.path) = 0 THEN <<>> ELSE SubSeq(u.path, 1, Len(u.path) - 1))
         \o LeafName(u)

\* os.path.dirname
dirname(p) == SubSeq(p, 1, Len(p) - 1)

\* os.makedirs(dirpath): the directory and every missing ancestor.
makedirs(ds, p) == ds \cup {SubSeq(p, 1, n) : n \in 1..Len(p)}

\* ------------------------------------------------------------------ state
VARIABLES
    entry,            \* the function the caller invoked
    pc,               \* the caller's position in it
    start_url,        \* RecursiveDownloader.start_urls[0]
    allowed_domains,  \* RecursiveDownloader.allowed_domains
    depth,            \* RecursiveDownloader.depth
    filter_urls,      \* RecursiveDownloader.filter_urls
    mk_missing_dirs,  \* RecursiveDownloader.mk_missing_dirs
    site,             \* the name of the web site crawled
    failing,          \* the pages whose download fails or is non-2xx
    offsite_redirects,\* whether the engine applies allowed_domains to redirects
    frontier,         \* the requests pending in the crawl engine
    seen,             \* the fingerprints recorded by the duplicate filter
    downloads,        \* per fingerprint, the number of downloads issued
    parsed,           \* the responses parse was called with
    spider_errors,    \* the responses on which parse raised
    dirs,             \* the directories that exist
    files,            \* the files that exist: path -> content
    html_contents,    \* the contents html_to_markdown read ("unread" before)
    dir_to_save_page_slurps, \* markdown_of_site's directory of pages (<<>>: None)
    save_filepath,    \* markdown_of_site's save_filepath (<<>>: None)
    result,           \* the value returned to the caller
    raised,           \* the exception that reached the caller
    htmls,            \* html_to_markdown's htmls argument
    prefixes,         \* html_to_markdown's prefixes (<<>>: None)
    name_and_url,     \* scrape_multiple_sites' mapping, as its items in order
    outcomes,         \* per item, what scraping and writing it comes to
    save_dir,         \* scrape_multiple_sites' save_dir
    item,             \* the number of items gen() has gone through
    failed,           \* the pairs gen() has yielded
    progress,         \* the names print_progress has announced
    deduplicate_lines_min_block_size, \* markdown_of_site's argument (0: None)
    content,          \* is_html_content's argument
    store,            \* the mutable mapping acquire_content stores into
    uris,             \* the uris argument of the latest acquire_content call
    save_condition,   \* the save_condition the caller of acquire_content gave
    acquirer,         \* the function acquire_content returned without uris
    calls             \* the number of calls that processed a uris mapping

spiderVars == <<start_url, allowed_domains, depth, filter_urls, mk_missing_dirs>>
webVars == <<site, failing, offsite_redirects>>
engineVars == <<frontier, seen, downloads, parsed, spider_errors>>
fsVars == <<dirs, files>>
callVars == <<entry, pc, dir_to_save_page_slurps, save_filepath, html_contents,
             result, raised>>
mdVars == <<htmls, prefixes>>
batchVars == <<name_and_url, outcomes, save_dir, item, failed, progress>>
dedupVars == <<deduplicate_lines_min_block_size>>
sniffVars == <<content>>
acquireVars == <<store, uris, save_condition, acquirer, calls>>
restVars == <<dedupVars, sniffVars, acquireVars>>
vars == <<spiderVars, webVars, engineVars, fsVars, callVars, mdVars, batchVars,
          restVars>>

\* ------------------------------------------------------- the crawl engine
web == SiteOf(site)

Request(u, d, df) == [url |-> u, depth |-> d, dont_filter |-> df]
Response(u, d) == [url |-> u, depth |-> d]

\* The directory the crawl writes under: download_site's rootdir, which
\* markdown_of_site sets to dir_to_save_page_slurps.
CrawlRoot ==
    IF entry = "markdown_of_site" THEN dir_to_save_page_slurps ELSE rootdir

\* The scheduler: a request is dropped when it is filterable and its
\* fingerprint was recorded; a filterable request records its fingerprint.
\* st is the pair of the pending requests and the recorded fingerprints.
enqueue_request(st, req) ==
    IF ~req.dont_filter /\ Fingerprint(req.url) \in st.seen
    THEN st
    ELSE [frontier |-> st.frontier \cup {req},
          seen |-> IF req.dont_filter THEN st.seen
                   ELSE st.seen \cup {Fingerprint(req.url)}]

\* The allowed_domains check of a request.
should_follow(req) ==
    req.dont_filter \/ UrlIsFromAllowed(req.url, allowed_domains)

\* One link of parse's loop: the filter_urls test, then response.follow at
\* depth + 1, which the engine checks against allowed_domains and schedules.
follow(st, response, link) ==
    IF filter_accepts(filter_urls, link)
    THEN LET req == Request(link, response.depth + 1, FALSE)
         IN IF should_follow(req) THEN enqueue_request(st, req) ELSE st
    ELSE st

RECURSIVE follow_links(_, _, _)
follow_links(st, response, links) ==
    IF links = <<>> THEN st
    ELSE follow_links(follow(st, response, Head(links)), response, Tail(links))

\* The depth test with <= for <: one level too many.
follows_links_inclusive(response) == response.depth <= depth

\* parse's depth test: links are followed from responses below self.depth.
follows_links(response) == response.depth < depth

\* The body of the page at a URL, as a sequence of tokens.
Title(p) ==
    CASE p = Root -> "home" [] p = PA -> "a" [] p = PB -> "b" [] p = PC -> "c"
      [] p = PD -> "d" [] p = PE -> "e" [] p = PW -> "w" [] p = WRoot -> "whome"
      [] p = PX -> "x"

\* A content: bytes or str, whether the bytes are valid UTF-8, and the text
\* as a sequence of tokens.
Content(type, utf8, text) == [type |-> type, utf8 |-> utf8, text |-> text]

Body(p) == Content("bytes", TRUE, <<"<html>", Title(p), "</html>">>)

\* start_requests: the start URL, unfiltered, at depth 0 (process.start()).
start_requests == {Request(start_url, 0, TRUE)}

\* RecursiveDownloader.parse on a response, with the engine's handling of
\* the requests it yields.  The result is the new state of the engine and
\* of the filesystem; st is the engine's state when parse is called.
parse(st, response) ==
    LET filepath == url_to_localpath(response.url, CrawlRoot)
        dirpath == dirname(filepath)
    IN  IF dirpath \notin dirs /\ ~mk_missing_dirs
        THEN \* FileNotFoundError: logged by the engine
             [st |-> st, dirs |-> dirs, files |-> files,
              spider_errors |-> spider_errors \cup {response}]
        ELSE [st |-> IF follows_links(response)
                     THEN follow_links(st, response,
                                       web.links[Fingerprint(response.url)])
                     ELSE st,
              dirs |-> IF dirpath \notin dirs THEN makedirs(dirs, dirpath) ELSE dirs,
              files |-> [f \in DOMAIN files \cup {filepath} |->
                           IF f = filepath THEN Body(Fingerprint(response.url))
                           ELSE files[f]],
              spider_errors |-> spider_errors]

\* A failed download that ends the crawl: every pending request is dropped.
download_failed_fatal(st) == [st EXCEPT !.frontier = {}]

\* A failed download (an error, or a non-2xx status): the spider has no
\* errback and parse is not called; the engine goes on with the other
\* pending requests.
download_failed(st) == st

\* The engine serves one pending request: the download fails, or is a
\* redirect, or its response is passed to parse.
Download(r) ==
    /\ r \in frontier
    /\ downloads' = [downloads EXCEPT ![Fingerprint(r.url)] = @ + 1]
    /\ LET fp == Fingerprint(r.url)
           target == web.redirect[fp]
       IN  IF fp \in failing
           THEN LET st == download_failed([frontier |-> frontier \ {r},
                                            seen |-> seen])
                IN  /\ frontier' = st.frontier
                    /\ seen' = st.seen
                    /\ UNCHANGED <<parsed, spider_errors, dirs, files>>
           ELSE IF target # fp
           THEN LET req == Request(target, r.depth, r.dont_filter)
                    st == [frontier |-> frontier \ {r}, seen |-> seen]
                    st2 == IF offsite_redirects /\ ~should_follow(req) THEN st
                           ELSE enqueue_request(st, req)
                IN  /\ frontier' = st2.frontier
                    /\ seen' = st2.seen
                    /\ UNCHANGED <<parsed, spider_errors, dirs, files>>
           ELSE LET response == Response(r.url, r.depth)
                    out == parse([frontier |-> frontier \ {r}, seen |-> seen],
                                 response)
                IN  /\ frontier' = out.st.frontier
                    /\ seen' = out.st.seen
                    /\ parsed' = parsed \cup {response}
                    /\ spider_errors' = out.spider_errors
                    /\ dirs' = out.dirs
                    /\ files' = out.files
    /\ UNCHANGED <<spiderVars, webVars, callVars, mdVars, batchVars,
                   restVars>>

\* -------------------------------------------------------- html_to_markdown
\* The tokens the regular expression of is_html_content matches.
OpeningTags == {"<html>", "<body>", "<p>", "<div>", "<!--"}
TagTokens == OpeningTags \cup {"</html>", "</body>", "</p>", "</div>", "-->"}

is_html_content(c) == \E i \in 1..Len(c.text) : c.text[i] \in OpeningTags

\* converter.handle: the text without its tags, ended by a blank line.
IsText(t) == t \notin TagTokens
handle(text) == SelectSeq(text, IsText) \o <<"\n\n">>

\* _markdown_contents: bytes that do not decode are skipped.
RECURSIVE _markdown_contents_abort(_)
_markdown_contents_abort(cs) ==
    IF cs = <<>> THEN <<>>
    ELSE LET c == Head(cs)
         IN  IF c.type = "bytes" /\ ~c.utf8
             THEN <<>>
             ELSE <<handle(c.text)>> \o _markdown_contents_abort(Tail(cs))
RECURSIVE _markdown_contents(_)
_markdown_contents(cs) ==
    IF cs = <<>> THEN <<>>
    ELSE LET c == Head(cs)
         IN  IF c.type = "bytes" /\ ~c.utf8
             THEN _markdown_contents(Tail(cs))
             ELSE <<handle(c.text)>> \o _markdown_contents(Tail(cs))

Min(a, b) == IF a < b THEN a ELSE b

\* zip(prefixes, markdown_contents) with f"{prefix}\n{markdown}"
weave(pfxs, mds) ==
    [i \in 1..Min(Len(pfxs), Len(mds)) |-> <<pfxs[i], "\n">> \o mds[i]]

\* "\n\n".join
RECURSIVE join(_)
join(blocks) ==
    IF blocks = <<>> THEN <<>>
    ELSE IF Len(blocks) = 1 THEN blocks[1]
    ELSE blocks[1] \o <<"\n\n">> \o join(Tail(blocks))

RECURSIVE SetToSeq(_)
SetToSeq(S) ==
    IF S = {} THEN <<>>
    ELSE LET x == CHOOSE y \in S : TRUE IN <<x>> \o SetToSeq(S \ {x})

IsUnder(f, d) == Len(f) > Len(d) /\ SubSeq(f, 1, Len(d)) = d

\* filter(Path.is_file, Path(htmls).rglob("*")), in the directory's order
rglob_files(fs, d) == SetToSeq({f \in DOMAIN fs : IsUnder(f, d)})

\* A path as a string.
RECURSIVE PathStr(_)
PathStr(p) == IF p = <<>> THEN "" ELSE "/" \o Head(p) \o PathStr(Tail(p))

HtmlFileNames == {"page.html", "other.html"}
endswith_html(p) == Len(p) > 0 /\ p[Len(p)] \in HtmlFileNames

\* The html_contents of html_to_markdown for a str argument: the file of
\* a path ending in ".html", the files under a directory (the strings of
\* the model are all shorter than 1000 characters), else the string itself.
str_contents(p, ds, fs) ==
    IF endswith_html(p)
    THEN IF p \in DOMAIN fs THEN [raised |-> "None", contents |-> <<fs[p]>>]
         ELSE [raised |-> "FileNotFoundError", contents |-> <<>>]
    ELSE IF p \in ds
    THEN [raised |-> "None",
          contents |-> [i \in 1..Len(rglob_files(fs, p)) |-> fs[rglob_files(fs, p)[i]]]]
    ELSE [raised |-> "None", contents |-> <<Content("str", TRUE, <<PathStr(p)>>)>>]

\* The contents of a mapping argument: the values content_filt accepts.
mapping_contents_unfiltered(values) == values
mapping_contents(values) == SelectSeq(values, is_html_content)

NoneValue == [kind |-> "None", val |-> <<>>]
StrValue(t) == [kind |-> "str", val |-> t]
PathValue(p) == [kind |-> "path", val |-> p]

\* html_to_markdown from its html_contents on: conversion, prefixes,
\* aggregation, and the save or the return.
combine(contents, pfxs) ==
    LET markdown_contents == _markdown_contents(contents)
    IN  join(IF pfxs # <<>> THEN weave(pfxs, markdown_contents)
             ELSE markdown_contents)

html_to_markdown(contents, save, pfxs, ds, fs) ==
    LET combined_markdown == combine(contents, pfxs)
    IN  IF save # <<>>
        THEN IF dirname(save) \notin ds
             THEN [raised |-> "FileNotFoundError", value |-> NoneValue, files |-> fs]
             ELSE IF save \in ds
             THEN [raised |-> "IsADirectoryError", value |-> NoneValue, files |-> fs]
             ELSE [raised |-> "None", value |-> PathValue(save),
                   files |-> [f \in DOMAIN fs \cup {save} |->
                                IF f = save
                                THEN Content("str", TRUE, combined_markdown)
                                ELSE fs[f]]]
        ELSE [raised |-> "None", value |-> StrValue(combined_markdown), files |-> fs]

\* --------------------------------------------------------------- the calls
cwd == <<"cwd">>
TmpName == <<"tmp", "scraped_">>
SlurpsDir == <<"slurps">>
BaseDirs == {<<"tmp">>, <<"out">>, cwd, rootdir, SlurpsDir}

RECURSIVE JoinSegments(_)
JoinSegments(p) == IF p = <<>> THEN "" ELSE "__" \o Head(p) \o JoinSegments(Tail(p))

\* url_to_filename: no scheme, no trailing slash, "/" replaced by "__"
url_to_filename(u) == JoinLabels(u.host) \o JoinSegments(u.path)

\* RecursiveDownloader.__init__: allowed_domains
init_allowed_domains(u) == {netloc(u)}

\* deduplicate_lines_min_block_size: None, or a number of lines.
BlockSizes == {0, 2}

SaveChoices == {<<>>, <<"out", "site.md">>, <<"missing", "site.md">>, <<"out">>}

\* A markdown_of_site that does not look at the containing directory.
containing_dir_unchecked(save, ds) == FALSE

\* markdown_of_site: the save path is given, is not a directory, and the
\* directory that contains it (the working directory for a bare file name)
\* does not exist.
containing_dir_missing(save, ds) ==
    LET containing_dir == IF dirname(save) = <<>> THEN cwd ELSE dirname(save)
    IN  save # <<>> /\ save \notin ds /\ containing_dir \notin ds

\* markdown_of_site up to the call of download_site: save_filepath is
\* completed or checked, and the directory of the pages is settled.  A
\* TemporaryDirectory that is not kept is removed as soon as its name has
\* been taken, so the default directory does not exist afterwards.
markdown_of_site_prepare ==
    /\ entry = "markdown_of_site"
    /\ pc = "call"
    /\ IF containing_dir_missing(save_filepath, dirs)
       THEN /\ raised' = "FileNotFoundError"
                /\ pc' = "done"
                /\ UNCHANGED <<save_filepath, dir_to_save_page_slurps>>
           ELSE /\ save_filepath' =
                      IF save_filepath # <<>> /\ save_filepath \in dirs
                      THEN save_filepath \o <<url_to_filename(start_url) \o ".md">>
                      ELSE save_filepath
                /\ IF dir_to_save_page_slurps = <<>>
                   THEN /\ dir_to_save_page_slurps' = TmpName
                        /\ pc' = "start"
                        /\ raised' = raised
                   ELSE IF dir_to_save_page_slurps \in dirs
                   THEN /\ pc' = "start"
                        /\ UNCHANGED <<dir_to_save_page_slurps, raised>>
                   ELSE /\ pc' = "done"
                        /\ raised' = "AssertionError"
                        /\ UNCHANGED dir_to_save_page_slurps
    /\ UNCHANGED <<entry, html_contents, result>>
    /\ UNCHANGED <<spiderVars, webVars, engineVars, fsVars, mdVars, batchVars,
                   restVars>>

\* download_site: p.start().  The worker process builds the spider and the
\* engine requests the start URL.
download_site_start ==
    /\ pc = "start"
    /\ frontier' = start_requests
    /\ pc' = "join"
    /\ UNCHANGED <<seen, downloads, parsed, spider_errors>>
    /\ UNCHANGED <<entry, dir_to_save_page_slurps, save_filepath, html_contents,
                   result, raised>>
    /\ UNCHANGED <<spiderVars, webVars, fsVars, mdVars, batchVars,
                   restVars>>

\* A join that returns at once.
worker_not_awaited == TRUE

\* The worker process has ended: the crawl has no pending request.
worker_finished == frontier = {}

\* download_site: p.join() returns once the worker process has ended.
download_site_join ==
    /\ pc = "join"
    /\ worker_finished
    /\ pc' = IF entry = "markdown_of_site" THEN "convert" ELSE "done"
    /\ UNCHANGED <<entry, dir_to_save_page_slurps, save_filepath, html_contents,
                   result, raised>>
    /\ UNCHANGED <<spiderVars, webVars, engineVars, fsVars, mdVars, batchVars,
                   restVars>>

\* deduplicate_lines, from position i on: a block of n lines that already
\* stands earlier in the text is removed, any other line is kept.  The
\* lines of the model are the tokens of a text.
RECURSIVE deduplicate_from(_, _, _)
deduplicate_from(text, n, i) ==
    IF i > Len(text) THEN <<>>
    ELSE IF /\ i + n - 1 <= Len(text)
            /\ \E j \in 1..(i - n) :
                   SubSeq(text, j, j + n - 1) = SubSeq(text, i, i + n - 1)
    THEN deduplicate_from(text, n, i + n)
    ELSE <<text[i]>> \o deduplicate_from(text, n, i + 1)

deduplicate_lines(text, min_block_size) ==
    deduplicate_from(text, min_block_size, 1)

\* markdown_of_site's last lines: what html_to_markdown returned, passed
\* through deduplicate_lines when a block size is given.  A returned path
\* is a string of one line.
deduplicated(markdown, n) ==
    IF n = 0 \/ markdown.kind = "None" THEN markdown
    ELSE IF markdown.kind = "str"
    THEN StrValue(deduplicate_lines(markdown.val, n))
    ELSE IF deduplicate_lines(<<PathStr(markdown.val)>>, n) = <<PathStr(markdown.val)>>
    THEN markdown
    ELSE StrValue(deduplicate_lines(<<PathStr(markdown.val)>>, n))

\* markdown_of_site after download_site: html_to_markdown on the directory
\* of the pages, the deduplication of what it returned, and the return.
markdown_of_site_convert ==
    /\ pc = "convert"
    /\ LET read == str_contents(dir_to_save_page_slurps, dirs, files)
           out == html_to_markdown(read.contents, save_filepath, <<>>, dirs, files)
       IN  /\ html_contents' = read.contents
           /\ result' = deduplicated(out.value, deduplicate_lines_min_block_size)
           /\ raised' = IF read.raised # "None" THEN read.raised ELSE out.raised
           /\ files' = out.files
    /\ pc' = "done"
    /\ UNCHANGED <<entry, dir_to_save_page_slurps, save_filepath, dirs>>
    /\ UNCHANGED <<spiderVars, webVars, engineVars, mdVars, batchVars,
                   restVars>>

\* ------------------------------------------------------- the specification
Unread == <<Content("unread", TRUE, <<>>)>>

NoHtmls == [kind |-> "None", values |-> <<>>, path |-> <<>>]

\* No call of html_to_markdown of its own.
NoMd == htmls = NoHtmls /\ prefixes = <<>>

\* No call of scrape_multiple_sites.
NoBatch ==
    /\ name_and_url = <<>>
    /\ outcomes = <<>>
    /\ save_dir = <<>>
    /\ item = 0
    /\ failed = <<>>
    /\ progress = <<>>

\* No line deduplication asked of markdown_of_site.
NoDedup == deduplicate_lines_min_block_size = 0

\* No call of is_html_content of its own.
NoSniff == content = [type |-> "None", chars |-> <<>>]

\* No call of acquire_content.
NoAcquire ==
    /\ store = <<>>
    /\ uris = <<>>
    /\ save_condition = "is_not_none"
    /\ acquirer = "None"
    /\ calls = 0

\* No crawl.
NoCrawl ==
    /\ start_url = Root
    /\ allowed_domains = init_allowed_domains(start_url)
    /\ depth = 0
    /\ filter_urls = "None"
    /\ mk_missing_dirs = TRUE
    /\ site = "spec"
    /\ failing = {}
    /\ offsite_redirects = FALSE
    /\ frontier = {}
    /\ seen = {}
    /\ downloads = [p \in Pages |-> 0]
    /\ parsed = {}
    /\ spider_errors = {}
    /\ dir_to_save_page_slurps = <<>>

Init ==
    /\ entry \in {"download_site", "markdown_of_site"}
    /\ pc = IF entry = "markdown_of_site" THEN "call" ELSE "start"
    /\ start_url = Root
    /\ allowed_domains = init_allowed_domains(start_url)
    /\ depth \in 0..MaxDepth
    /\ filter_urls \in FilterChoices
    /\ mk_missing_dirs \in (IF entry = "markdown_of_site" THEN {TRUE} ELSE BOOLEAN)
    /\ site \in SiteNames
    /\ failing \in {{}} \cup {{p} : p \in Pages}
    /\ offsite_redirects \in BOOLEAN
    /\ frontier = {}
    /\ seen = {}
    /\ downloads = [p \in Pages |-> 0]
    /\ parsed = {}
    /\ spider_errors = {}
    /\ dirs \in (IF entry = "markdown_of_site" THEN {BaseDirs}
                 ELSE {BaseDirs, BaseDirs \cup {rootdir \o <<"example.test">>}})
    /\ files = <<>>
    /\ dir_to_save_page_slurps \in
           (IF entry = "markdown_of_site" THEN {<<>>, SlurpsDir} ELSE {<<>>})
    /\ save_filepath \in (IF entry = "markdown_of_site" THEN SaveChoices ELSE {<<>>})
    /\ html_contents = Unread
    /\ result = NoneValue
    /\ raised = "None"
    /\ NoMd
    /\ NoBatch
    /\ deduplicate_lines_min_block_size \in
           (IF entry = "markdown_of_site" THEN BlockSizes ELSE {0})
    /\ NoSniff
    /\ NoAcquire

Next ==
    \/ markdown_of_site_prepare
    \/ download_site_start
    \/ \E r \in frontier : Download(r)
    \/ download_site_join
    \/ markdown_of_site_convert

Spec == Init /\ [][Next]_vars

\* ------------------------------------------ html_to_markdown, called alone
MaxItems == 3

Htmls(kind, values, path, paths) ==
    [kind |-> kind, values |-> values, path |-> path, paths |-> paths]

\* The html_contents of html_to_markdown for its htmls argument.  For an
\* iterable of paths no branch binds html_contents, and its first use
\* raises.
contents_of(h, ds, fs) ==
    CASE h.kind = "mapping" ->
           [raised |-> "None", contents |-> mapping_contents(h.values)]
      [] h.kind = "str" -> str_contents(h.path, ds, fs)
      [] h.kind = "iterable" ->
           [raised |-> "UnboundLocalError", contents |-> <<>>]

html_to_markdown_call ==
    /\ entry = "html_to_markdown"
    /\ pc = "call"
    /\ LET read == contents_of(htmls, dirs, files)
           out == html_to_markdown(read.contents, save_filepath, prefixes,
                                   dirs, files)
       IN  IF read.raised # "None"
           THEN /\ raised' = read.raised
                /\ UNCHANGED <<html_contents, result, files>>
           ELSE /\ html_contents' = read.contents
                /\ result' = out.value
                /\ raised' = out.raised
                /\ files' = out.files
    /\ pc' = "done"
    /\ UNCHANGED <<entry, dir_to_save_page_slurps, save_filepath, dirs>>
    /\ UNCHANGED <<spiderVars, webVars, engineVars, mdVars, batchVars,
                   restVars>>

HtmlStr == Content("str", TRUE, <<"<p>", "hi", "</p>">>)
HtmlBytes == Content("bytes", TRUE, <<"<div>", "yo", "</div>">>)
BadBytes == Content("bytes", FALSE, <<"<p>", "bad", "</p>">>)
PlainStr == Content("str", TRUE, <<"plain">>)
ContentChoices == {HtmlStr, HtmlBytes, BadBytes, PlainStr}

SiteDir == <<"site">>
MdFiles ==
    [f \in {SiteDir \o <<"page.html">>, SiteDir \o <<"notes">>} |->
        IF f = SiteDir \o <<"page.html">> THEN HtmlBytes
        ELSE Content("bytes", TRUE, <<"plain">>)]

HtmlsChoices ==
    {Htmls("mapping", v, <<>>, <<>>) :
        v \in UNION {[1..n -> ContentChoices] : n \in 0..MaxItems}}
    \cup {Htmls("str", <<>>, q, <<>>) :
            q \in {SiteDir, SiteDir \o <<"page.html">>, SiteDir \o <<"notes">>,
                    <<"raw text">>}}
    \cup {Htmls("iterable", <<>>, <<>>, q) :
            q \in {<<>>, <<SiteDir \o <<"page.html">>>>,
                    <<SiteDir \o <<"page.html">>, SiteDir \o <<"notes">>>>}}

PrefixChoices == {[k \in 1..n |-> "prefix" \o ToString(k)] : n \in 0..MaxItems}

InitMd ==
    /\ entry = "html_to_markdown"
    /\ pc = "call"
    /\ NoCrawl
    /\ NoBatch
    /\ NoDedup
    /\ NoSniff
    /\ NoAcquire
    /\ dirs = BaseDirs \cup {SiteDir}
    /\ files = MdFiles
    /\ htmls \in HtmlsChoices
    /\ prefixes \in PrefixChoices
    /\ save_filepath \in {<<>>, <<"out", "site.md">>}
    /\ html_contents = Unread
    /\ result = NoneValue
    /\ raised = "None"

NextMd == html_to_markdown_call

SpecMd == InitMd /\ [][NextMd]_vars

\* --------------------------------------------------- is_html_content, alone
\* The content is a sequence of characters; a byte that is not valid UTF-8
\* is the character InvalidByte, which only bytes can hold.
MaxLen == 4

InvalidByte == "\\xff"
StrAlphabet == {"<", "p", "P", "T", "r", "x", "!", "-"}
BytesAlphabet == StrAlphabet \cup {InvalidByte}

\* The alternatives of the regular expression, in its order.
html_tags ==
    <<<<"h", "t", "m", "l">>,
      <<"h", "e", "a", "d">>,
      <<"b", "o", "d", "y">>,
      <<"t", "i", "t", "l", "e">>,
      <<"m", "e", "t", "a">>,
      <<"l", "i", "n", "k">>,
      <<"s", "c", "r", "i", "p", "t">>,
      <<"s", "t", "y", "l", "e">>,
      <<"d", "i", "v">>,
      <<"s", "p", "a", "n">>,
      <<"p">>,
      <<"a">>,
      <<"i", "m", "g">>,
      <<"t", "a", "b", "l", "e">>,
      <<"t", "r">>,
      <<"t", "d">>,
      <<"u", "l">>,
      <<"o", "l">>,
      <<"l", "i">>,
      <<"h", "1">>,
      <<"h", "2">>,
      <<"h", "3">>,
      <<"h", "4">>,
      <<"h", "5">>,
      <<"h", "6">>,
      <<"b", "r">>,
      <<"h", "r">>,
      <<"!", "-", "-">>>>

\* content.decode('utf-8', errors='ignore'): invalid bytes are left out.
IsValid(ch) == ch # InvalidByte
decode_ignore(chars) == SelectSeq(chars, IsValid)

\* A comparison of characters as they stand.
fold_none(ch) == ch

\* re.IGNORECASE: characters are compared without their case.
fold(ch) ==
    CASE ch = "P" -> "p"
      [] ch = "T" -> "t"
      [] ch = "H" -> "h"
      [] OTHER -> ch

\* Whether the alternative tok matches the text at position i.
RECURSIVE match_token(_, _, _)
match_token(text, i, tok) ==
    IF tok = <<>> THEN TRUE
    ELSE IF i > Len(text) THEN FALSE
    ELSE IF fold(text[i]) # fold(Head(tok)) THEN FALSE
    ELSE match_token(text, i + 1, Tail(tok))

\* Whether one of the alternatives k.. matches the text at position i.
RECURSIVE match_alternatives(_, _, _)
match_alternatives(text, i, k) ==
    IF k > Len(html_tags) THEN FALSE
    ELSE IF match_token(text, i, html_tags[k]) THEN TRUE
    ELSE match_alternatives(text, i, k + 1)

\* html_tags.search: the first position from i on where "<" and one of the
\* alternatives match.
RECURSIVE search(_, _)
search(text, i) ==
    IF i > Len(text) THEN FALSE
    ELSE IF text[i] = "<" /\ match_alternatives(text, i + 1, 1) THEN TRUE
    ELSE search(text, i + 1)

\* is_html_content on characters.
is_html_chars(c) ==
    LET text == IF c.type = "bytes" THEN decode_ignore(c.chars) ELSE c.chars
    IN  search(text, 1)

BoolValue(b) == [kind |-> "bool", val |-> b]

is_html_content_call ==
    /\ entry = "is_html_content"
    /\ pc = "call"
    /\ result' = BoolValue(is_html_chars(content))
    /\ pc' = "done"
    /\ UNCHANGED <<entry, dir_to_save_page_slurps, save_filepath, html_contents,
                   raised, content>>
    /\ UNCHANGED <<spiderVars, webVars, engineVars, fsVars, mdVars, batchVars,
                   dedupVars, acquireVars>>

\* The strings of the docstring.
html_string == <<"<", "h", "t", "m", "l", ">", "<", "b", "o", "d", "y", ">", "h", "i", "<", "/", "b", "o", "d", "y", ">", "<", "/", "h", "t", "m", "l", ">">>
non_html_string == <<"p", "l", "a", "i", "n", " ", "t", "e", "x", "t">>

ContentInputs ==
    {[type |-> "str", chars |-> t] :
        t \in UNION {[1..n -> StrAlphabet] : n \in 0..MaxLen}
              \cup {html_string, non_html_string, <<"<", "H", "r">>}}
    \cup {[type |-> "bytes", chars |-> t] :
            t \in UNION {[1..n -> BytesAlphabet] : n \in 0..MaxLen}}

InitSniff ==
    /\ entry = "is_html_content"
    /\ pc = "call"
    /\ NoCrawl
    /\ NoMd
    /\ NoBatch
    /\ NoDedup
    /\ NoAcquire
    /\ dirs = BaseDirs
    /\ files = <<>>
    /\ save_filepath = <<>>
    /\ html_contents = Unread
    /\ result = NoneValue
    /\ raised = "None"
    /\ content \in ContentInputs

NextSniff == is_html_content_call

SpecSniff == InitSniff /\ [][NextSniff]_vars

\* ---------------------------------------------------------- acquire_content
MaxCalls == 3

Keys == {"example1", "example2"}
Uris == {"hello", "world", "gone"}

\* The uri_to_content of the calls: str.upper, and None for a uri that has
\* no content.
uri_to_content(uri) ==
    CASE uri = "hello" -> "HELLO"
      [] uri = "world" -> "WORLD"
      [] uri = "gone" -> "None"

\* The save conditions a caller gives: the default, and one of their own
\* that refuses one content.
SaveConditions == {"is_not_none", "is_not_world"}

is_not_none(x) == x # "None"

satisfies(cond, x) ==
    IF cond = "is_not_none" THEN is_not_none(x) ELSE x # "WORLD"

\* The loop of acquire_content over uris.items() with store.__setitem__.
store_after(st, u, cond) ==
    LET saved == {k \in DOMAIN u : satisfies(cond, uri_to_content(u[k]))}
    IN  [k \in DOMAIN st \cup saved |->
            IF k \in saved THEN uri_to_content(u[k]) ELSE st[k]]

UrisChoices == UNION {[ks -> Uris] : ks \in SUBSET Keys}

\* acquire_content(uri_to_content, uris, store, save_condition=...)
acquire_content_call(u) ==
    /\ entry = "acquire_content"
    /\ calls < MaxCalls
    /\ store' = store_after(store, u, save_condition)
    /\ uris' = u
    /\ calls' = calls + 1
    /\ UNCHANGED <<save_condition, acquirer>>
    /\ UNCHANGED <<spiderVars, webVars, engineVars, fsVars, callVars, mdVars,
                   batchVars, dedupVars, sniffVars>>

\* acquire_content(uri_to_content, store=store, save_condition=...): the
\* partial that is returned binds uri_to_content and store, nothing else.
acquire_content_factory ==
    /\ entry = "acquire_content"
    /\ acquirer = "None"
    /\ acquirer' = "partial"
    /\ UNCHANGED <<store, uris, save_condition, calls>>
    /\ UNCHANGED <<spiderVars, webVars, engineVars, fsVars, callVars, mdVars,
                   batchVars, dedupVars, sniffVars>>

\* content_acquirer(uris): acquire_content with the bound arguments and
\* the default save_condition.
content_acquirer_call(u) ==
    /\ entry = "acquire_content"
    /\ acquirer = "partial"
    /\ calls < MaxCalls
    /\ store' = store_after(store, u, "is_not_none")
    /\ uris' = u
    /\ calls' = calls + 1
    /\ UNCHANGED <<save_condition, acquirer>>
    /\ UNCHANGED <<spiderVars, webVars, engineVars, fsVars, callVars, mdVars,
                   batchVars, dedupVars, sniffVars>>

InitAcquire ==
    /\ entry = "acquire_content"
    /\ pc = "call"
    /\ NoCrawl
    /\ NoMd
    /\ NoBatch
    /\ NoDedup
    /\ NoSniff
    /\ dirs = BaseDirs
    /\ files = <<>>
    /\ save_filepath = <<>>
    /\ html_contents = Unread
    /\ result = NoneValue
    /\ raised = "None"
    /\ store \in {<<>>, [k \in {"example2"} |-> "OLD"]}
    /\ uris = <<>>
    /\ save_condition \in SaveConditions
    /\ acquirer = "None"
    /\ calls = 0

NextAcquire ==
    \/ \E u \in UrisChoices : acquire_content_call(u)
    \/ acquire_content_factory
    \/ \E u \in UrisChoices : content_acquirer_call(u)

SpecAcquire == InitAcquire /\ [][NextAcquire]_vars

\* ---------------------------------------------------- scrape_multiple_sites
MaxSites == 3

Names == {"a", "b", "c"}
SiteUrls == {"u1", "u2"}

\* What the try block of gen() comes to for an item: the scrape and the
\* write succeed; the scrape raises; open() raises; the scrape returns
\* something that is not a str, so that write() raises on the opened file.
Outcomes == {"ok", "scrape_raises", "open_raises", "write_raises"}

\* url_scrape_function(url, depth=3)
md_content(url) == Content("str", TRUE, <<"markdown of ", url>>)

\* f"{save_dir}/{name}.md"
md_path(dir, name) == dir \o <<name \o ".md">>

\* scrape_multiple_sites up to gen(): save_dir must be a directory.
scrape_multiple_sites_begin ==
    /\ entry = "scrape_multiple_sites"
    /\ pc = "call"
    /\ IF save_dir \notin dirs
       THEN raised' = "NotADirectoryError" /\ pc' = "done"
       ELSE raised' = raised /\ pc' = "gen"
    /\ UNCHANGED <<entry, dir_to_save_page_slurps, save_filepath, html_contents,
                   result>>
    /\ UNCHANGED <<spiderVars, webVars, engineVars, fsVars, mdVars, batchVars,
                   restVars>>

\* An except clause that swallows the error without yielding the pair.
gen_yield_swallowed(fl, outcome, pair) == fl

\* gen()'s except clause: the pair is yielded when the try block raised.
gen_yield(fl, outcome, pair) ==
    IF outcome = "ok" THEN fl ELSE Append(fl, pair)

\* One iteration of gen(): the try block on the next item, and the yield
\* of the pair when it raised.
gen_step ==
    /\ pc = "gen"
    /\ item < Len(name_and_url)
    /\ LET name == name_and_url[item + 1][1]
           url == name_and_url[item + 1][2]
           outcome == outcomes[item + 1]
           path == md_path(save_dir, name)
       IN  /\ progress' = Append(progress, name)
           /\ files' =
                 IF outcome \in {"ok", "write_raises"}
                 THEN [f \in DOMAIN files \cup {path} |->
                         IF f = path
                         THEN (IF outcome = "ok" THEN md_content(url)
                               ELSE Content("str", TRUE, <<>>))
                         ELSE files[f]]
                 ELSE files
           /\ failed' = gen_yield(failed, outcome, <<name, url>>)
    /\ item' = item + 1
    /\ UNCHANGED <<name_and_url, outcomes, save_dir, dirs>>
    /\ UNCHANGED <<spiderVars, webVars, engineVars, callVars, mdVars,
                   restVars>>

\* dict(gen()) once gen() is exhausted.
scrape_multiple_sites_return ==
    /\ pc = "gen"
    /\ item = Len(name_and_url)
    /\ result' = [kind |-> "dict", val |-> failed]
    /\ pc' = "done"
    /\ UNCHANGED <<entry, dir_to_save_page_slurps, save_filepath, html_contents,
                   raised>>
    /\ UNCHANGED <<spiderVars, webVars, engineVars, fsVars, mdVars, batchVars,
                   restVars>>

\* The items of a dict: sequences of pairs with distinct names.
ItemsChoices ==
    {q \in UNION {[1..n -> Names \X SiteUrls] : n \in 0..MaxSites} :
        \A j, k \in 1..Len(q) : j # k => q[j][1] # q[k][1]}

InitBatch ==
    /\ entry = "scrape_multiple_sites"
    /\ pc = "call"
    /\ NoCrawl
    /\ NoMd
    /\ NoDedup
    /\ NoSniff
    /\ NoAcquire
    /\ dirs = BaseDirs
    /\ files = <<>>
    /\ save_filepath = <<>>
    /\ html_contents = Unread
    /\ result = NoneValue
    /\ raised = "None"
    /\ name_and_url \in ItemsChoices
    /\ outcomes \in [1..Len(name_and_url) -> Outcomes]
    /\ save_dir \in {<<"out">>, <<"missing">>}
    /\ item = 0
    /\ failed = <<>>
    /\ progress = <<>>

NextBatch ==
    \/ scrape_multiple_sites_begin
    \/ gen_step
    \/ scrape_multiple_sites_return

SpecBatch == InitBatch /\ [][NextBatch]_vars

\* ------------------------------------------------------------ the claims
Range(q) == {q[i] : i \in 1..Len(q)}

\* The page a request for u ends on, redirects followed.
RECURSIVE Land(_)
Land(u) ==
    LET t == web.redirect[Fingerprint(u)]
    IN  IF t = Fingerprint(u) THEN t ELSE Land(t)

\* The pages at link distance at most k from the start URL.
RECURSIVE Within(_)
Within(k) ==
    IF k = 0 THEN {Land(start_url)}
    ELSE LET prev == Within(k - 1)
         IN  prev \cup {Land(l) : l \in UNION {Range(web.links[p]) : p \in prev}}

\* The files of pages: the files under the directory the crawl writes to.
PageFiles == {f \in DOMAIN files : IsUnder(f, CrawlRoot) /\ pc # "call"}

CrawlEnded == pc \in {"convert", "done"} /\ frontier = {} /\ downloads[Fingerprint(start_url)] > 0

\* C1: every response passed to parse, every pending request and every
\* page file is at depth at most self.depth, hence at link distance at most
\* self.depth from the start URL; with depth 0 only the start URL is parsed.
C1_DepthBound ==
    /\ \A r \in frontier : r.depth <= depth
    /\ \A r \in parsed :
          /\ r.depth <= depth
          /\ Fingerprint(r.url) \in Within(depth)
    /\ \A f \in PageFiles :
          \E r \in parsed : f = url_to_localpath(r.url, CrawlRoot)
    /\ depth = 0 => \A r \in parsed : Fingerprint(r.url) = Land(start_url)

\* A page at the depth limit whose links were not followed.
C1_Witness ==
    /\ CrawlEnded
    /\ depth >= 1
    /\ \E r \in parsed :
          /\ r.depth = depth
          /\ web.links[Fingerprint(r.url)] # <<>>
          /\ url_to_localpath(r.url, CrawlRoot) \in PageFiles

\* C2: every response parse persists is of the host of the start URL.
C2_HostConfinement ==
    \A r \in parsed :
        url_to_localpath(r.url, CrawlRoot) \in PageFiles
            => netloc(r.url) = netloc(start_url)

\* C3: no URL is downloaded twice and parse is called at most once per URL.
C3_FetchedOnce ==
    \A p \in Pages :
        /\ downloads[p] <= 1
        /\ Cardinality({r \in parsed : Fingerprint(r.url) = p}) <= 1

\* The URLs the crawl is to fetch within k hops: the start URL, and the
\* links of fetched pages that are on the start URL's host and accepted by
\* filter_urls.
RECURSIVE Expected(_)
Expected(k) ==
    IF k = 0 THEN {Fingerprint(start_url)}
    ELSE LET prev == Expected(k - 1)
         IN  prev \cup
             {Fingerprint(l) :
                l \in {m \in UNION {Range(web.links[p]) : p \in prev \ failing} :
                         /\ netloc(m) = netloc(start_url)
                         /\ filter_accepts(filter_urls, m)}}

Persisted ==
    {Fingerprint(r.url) :
       r \in {q \in parsed : url_to_localpath(q.url, CrawlRoot) \in PageFiles}}

\* C4: when the crawl has ended on a site whose pages all download and none
\* redirects, with directories created as needed, the persisted pages are
\* exactly the expected ones.
C4_ExactlyReachable ==
    (/\ CrawlEnded
     /\ failing = {}
     /\ web.redirect = NoRedirect
     /\ mk_missing_dirs)
        => Persisted = Expected(depth)

\* C4 on the site where a page is first reached by the longer of two link
\* chains.
C4_Diamond == site = "diamond" => C4_ExactlyReachable

\* C4, the scenario of the specification: start "/", depth 1.
C4_Scenario ==
    (CrawlEnded /\ site = "spec" /\ depth = 1 /\ failing = {} /\ mk_missing_dirs)
        => Persisted = {Root, PB}

\* The URLs of which a request was ever scheduled.
Scheduled == seen \cup {Fingerprint(start_url)}

IsParsed(p) == \E r \in parsed : Fingerprint(r.url) = p

IsPersisted(p) ==
    \E r \in parsed :
        Fingerprint(r.url) = p /\ url_to_localpath(r.url, CrawlRoot) \in PageFiles

\* C5: a page whose download fails is never parsed, has no file and yields
\* no request; and when the crawl has ended, every other scheduled URL has
\* been downloaded and, unless it redirects, parsed and (with directories
\* created as needed) persisted.
C5_FailureNonFatal ==
    /\ \A p \in failing :
          /\ ~IsParsed(p)
          /\ \A u \in URLs :
                Fingerprint(u) = p => url_to_localpath(u, CrawlRoot) \notin PageFiles
    /\ CrawlEnded =>
          \A p \in Scheduled \ failing :
              /\ downloads[p] >= 1
              /\ web.redirect[p] = p =>
                    /\ IsParsed(p)
                    /\ mk_missing_dirs => IsPersisted(p)

\* A download failed while another request was scheduled, and the crawl
\* ended with that other page persisted.
C5_Witness ==
    /\ CrawlEnded
    /\ \E p \in failing :
          /\ downloads[p] = 1
          /\ p # Fingerprint(start_url)
          /\ \E q \in Scheduled \ {p, Fingerprint(start_url)} : IsPersisted(q)

\* C6: once parse has raised for a missing directory, the crawl is over
\* (nothing is pending) and the error is the caller's.
C6_MissingDirAborts ==
    spider_errors # {} =>
        /\ frontier = {}
        /\ pc = "done" => raised = "FileNotFoundError"

\* C7: markdown_of_site, without save_filepath, on a start URL that cannot
\* be fetched returns the empty string and raises nothing.
C7_EmptyDocument ==
    (/\ entry = "markdown_of_site"
     /\ pc = "done"
     /\ save_filepath = <<>>
     /\ Fingerprint(start_url) \in failing)
        => (raised = "None" /\ result = StrValue(<<>>))

\* C7 restricted to a given (existing, empty) dir_to_save_page_slurps.
C7_GivenDir == dir_to_save_page_slurps = SlurpsDir => C7_EmptyDocument

\* C8: html_to_markdown reads the directory only when the crawl has no
\* pending request, and what it read is, ever after, the content of every
\* page file.
C8_AssembleAfterCrawl ==
    /\ pc = "convert" => frontier = {}
    /\ (html_contents # Unread /\ raised = "None") =>
          /\ frontier = {}
          /\ \A f \in PageFiles : files[f] \in Range(html_contents)
          /\ \A r \in parsed : Body(Fingerprint(r.url)) \in Range(html_contents)

\* markdown_of_site returned after a crawl that persisted several pages.
C8_Witness ==
    /\ entry = "markdown_of_site"
    /\ pc = "done"
    /\ html_contents # Unread
    /\ Cardinality(PageFiles) >= 3
    /\ Len(html_contents) = Cardinality(PageFiles)

\* The pairs among the first k items whose try block raised, in order.
RECURSIVE RaisedPairs(_)
RaisedPairs(k) ==
    IF k = 0 THEN <<>>
    ELSE IF outcomes[k] = "ok" THEN RaisedPairs(k - 1)
    ELSE Append(RaisedPairs(k - 1), name_and_url[k])

\* C9: with an existing save_dir, scrape_multiple_sites does not raise,
\* goes through every item in order, returns exactly the pairs whose try
\* block raised, and every other item has its markdown file.
C9_FailuresAsData ==
    (entry = "scrape_multiple_sites" /\ pc = "done" /\ save_dir \in dirs) =>
        /\ raised = "None"
        /\ progress = [k \in 1..Len(name_and_url) |-> name_and_url[k][1]]
        /\ result = [kind |-> "dict", val |-> RaisedPairs(Len(name_and_url))]
        /\ \A k \in 1..Len(name_and_url) :
              outcomes[k] = "ok" =>
                 /\ md_path(save_dir, name_and_url[k][1]) \in DOMAIN files
                 /\ files[md_path(save_dir, name_and_url[k][1])]
                       = md_content(name_and_url[k][2])

\* A batch that returned, in which a failed item precedes a written one.
C9_Witness ==
    /\ entry = "scrape_multiple_sites"
    /\ pc = "done"
    /\ Len(name_and_url) = 3
    /\ outcomes[1] = "scrape_raises"
    /\ outcomes[2] = "ok"
    /\ outcomes[3] = "open_raises"
    /\ Len(result.val) = 2

\* C10: html_to_markdown with prefixes whose count differs from the number
\* of contents that passed the filter raises and produces no document.
C10_PrefixMismatchRaises ==
    (/\ entry = "html_to_markdown"
     /\ pc = "done"
     /\ htmls.kind = "mapping"
     /\ prefixes # <<>>
     /\ Len(prefixes) # Len(mapping_contents(htmls.values)))
        => (raised # "None" /\ result = NoneValue)

\* The contents of the files of a sequence of paths.
FileContents(paths) == [k \in 1..Len(paths) |-> files[paths[k]]]

\* C11: html_to_markdown on an iterable of file paths returns the
\* aggregation of the conversions of the files' contents, one block per
\* file in order; on a single file path, the conversion of that file.
C11_PathsAreRead ==
    (/\ entry = "html_to_markdown"
     /\ pc = "done"
     /\ prefixes = <<>>
     /\ save_filepath = <<>>)
        => /\ htmls.kind = "iterable" =>
                /\ raised = "None"
                /\ result = StrValue(combine(FileContents(htmls.paths), <<>>))
           /\ (htmls.kind = "str" /\ htmls.path \in DOMAIN files) =>
                /\ raised = "None"
                /\ result = StrValue(combine(<<files[htmls.path]>>, <<>>))

\* C11 for a single path that ends in ".html".
C11_HtmlPath ==
    (/\ entry = "html_to_markdown"
     /\ pc = "done"
     /\ prefixes = <<>>
     /\ save_filepath = <<>>
     /\ htmls.kind = "str"
     /\ htmls.path \in DOMAIN files
     /\ endswith_html(htmls.path))
        => /\ raised = "None"
           /\ result = StrValue(combine(<<files[htmls.path]>>, <<>>))

\* The document a finished html_to_markdown call delivered: the saved file
\* when a save path was given, else the returned string.
Delivered ==
    IF save_filepath # <<>> THEN files[save_filepath].text ELSE result.val

Decodes(c) == c.type = "str" \/ c.utf8
Convertible(c) == is_html_content(c) /\ Decodes(c)

\* One converted block per content, joined by blank lines.
BlocksOf(cs) == join([k \in 1..Len(cs) |-> handle(cs[k].text)])

MappingCallDone ==
    /\ entry = "html_to_markdown"
    /\ pc = "done"
    /\ htmls.kind = "mapping"
    /\ prefixes = <<>>

C13_DecodeFailureSkipped ==
    (/\ entry = "html_to_markdown"
     /\ pc = "done"
     /\ raised = "None"
     /\ prefixes = <<>>)
        => Delivered = BlocksOf(SelectSeq(html_contents, Decodes))

C13_Witness ==
    /\ entry = "html_to_markdown"
    /\ pc = "done"
    /\ raised = "None"
    /\ prefixes = <<>>
    /\ html_contents = <<HtmlStr, BadBytes, HtmlBytes>>
    /\ Delivered = handle(HtmlStr.text) \o <<"\n\n">> \o handle(HtmlBytes.text)

\* A markdown_of_site call whose save path is not a directory and lies in
\* a directory that does not exist.
SaveDirMissing ==
    /\ entry = "markdown_of_site"
    /\ save_filepath # <<>>
    /\ save_filepath \notin dirs
    /\ dirname(save_filepath) # <<>>
    /\ dirname(save_filepath) \notin dirs

\* C15: markdown_of_site with a save path that is not a directory and
\* whose containing directory does not exist raises before the crawl
\* starts: no page is fetched and no file is written.
C15_RaisesBeforeCrawl ==
    (SaveDirMissing /\ pc # "call")
        => /\ pc = "done"
           /\ raised = "FileNotFoundError"
           /\ result = NoneValue
           /\ frontier = {}
           /\ \A p \in Pages : downloads[p] = 0
           /\ files = <<>>
           /\ dirs = BaseDirs

C15_Witness ==
    /\ SaveDirMissing
    /\ pc = "done"
    /\ raised = "FileNotFoundError"
    /\ site = "spec"
    /\ depth = MaxDepth
    /\ \A p \in Pages : downloads[p] = 0

MarkdownOfSiteDeduplicated ==
    /\ entry = "markdown_of_site"
    /\ pc = "done"
    /\ raised = "None"
    /\ deduplicate_lines_min_block_size # 0

\* The line-deduplicated text of the whole assembled document.
DeduplicatedDocument ==
    deduplicate_lines(combine(html_contents, <<>>),
                      deduplicate_lines_min_block_size)

\* C14: with deduplicate_lines_min_block_size set, the document
\* markdown_of_site delivers is the line-deduplicated assembled document:
\* the returned string without a save path, the content of the saved file
\* with one, and then the save path is what is returned.
C14_DeliveredIsDeduplicated ==
    MarkdownOfSiteDeduplicated =>
        /\ Delivered = DeduplicatedDocument
        /\ save_filepath # <<>> => result = PathValue(save_filepath)

\* C14 without a save path: the returned string is the deduplicated text.
C14_ReturnedIsDeduplicated ==
    (MarkdownOfSiteDeduplicated /\ save_filepath = <<>>)
        => result = StrValue(DeduplicatedDocument)

\* A call without a save path whose deduplication removed lines.
C14_ReturnedScenario ==
    /\ MarkdownOfSiteDeduplicated
    /\ save_filepath = <<>>
    /\ DeduplicatedDocument # combine(html_contents, <<>>)

\* The lower-case letter of an upper-case letter of the contents.
Lower(ch) ==
    IF ch \in {"P", "T", "H"} THEN [P |-> "p", T |-> "t", H |-> "h"][ch] ELSE ch

\* The text is_html_content looks at, without the case of its letters.
Seen(c) ==
    LET text == IF c.type = "bytes" THEN SelectSeq(c.chars, IsValid) ELSE c.chars
    IN  [k \in 1..Len(text) |-> Lower(text[k])]

\* Somewhere in the text stands "<" with a tag token right after it.
HasTag(text) ==
    \E i \in 1..Len(text) : \E k \in 1..Len(html_tags) :
        /\ i + Len(html_tags[k]) <= Len(text)
        /\ SubSeq(text, i, i + Len(html_tags[k])) = <<"<">> \o html_tags[k]

\* C16: is_html_content raises for no str or bytes content, and is true
\* exactly when the content, bytes decoded permissively, has somewhere a
\* "<" immediately followed by one of the tag tokens, whatever the case of
\* its letters; it is true of "<html><body>hi</body></html>" and false of
\* plain text.
C16_TagAnywhere ==
    (entry = "is_html_content" /\ pc = "done")
        => /\ raised = "None"
           /\ result = BoolValue(HasTag(Seen(content)))
           /\ content.chars = html_string => result = BoolValue(TRUE)
           /\ content.chars = non_html_string => result = BoolValue(FALSE)

C16_Witness ==
    /\ entry = "is_html_content"
    /\ pc = "done"
    /\ content = [type |-> "bytes", chars |-> <<"x", "<", InvalidByte, "P">>]
    /\ result = BoolValue(TRUE)

\* What a call that processed uris' did to the store: a processed key
\* whose content satisfies the caller's save_condition maps to that
\* content, and every other key is as it was before the call.
StoreFrame ==
    \A k \in Keys :
        IF k \in DOMAIN uris' /\ satisfies(save_condition, uri_to_content(uris'[k]))
        THEN k \in DOMAIN store' /\ store'[k] = uri_to_content(uris'[k])
        ELSE /\ (k \in DOMAIN store') = (k \in DOMAIN store)
             /\ k \in DOMAIN store => store'[k] = store[k]

\* C17: every acquire_content call on the mutable-mapping store, direct
\* or through the function returned when uris is omitted, writes the
\* content of each processed key that satisfies save_condition, writes no
\* key whose content fails it, and leaves every other entry unchanged.
C17_StoreFrame == [][calls' = calls + 1 => StoreFrame]_vars

\* C17 for the calls that give uris directly.
C17_DirectCalls ==
    [][(\E u \in UrisChoices : acquire_content_call(u)) => StoreFrame]_vars

\* C17 for callers that keep the default save_condition.
C17_DefaultCondition ==
    [][(save_condition = "is_not_none" /\ calls' = calls + 1) => StoreFrame]_vars

====
